---- MODULE Spec2Model ----
(***************************************************************************)
(* A model of the HTTP/1.1 engine built on raw TCP sockets: the receive    *)
(* buffer (bufPop / bufpush), the boundary scanner and request parser      *)
(* (cutMessage, parseHTTPReq, parseRequestLine, validateHeader), the       *)
(* promise-based socket wrapper (soInit, soRead, soWrite), the body        *)
(* readers and the per-connection loop (serverClient, newConn).            *)
(*                                                                         *)
(* A byte is a one-character string; a Buffer is a sequence of bytes.      *)
(* JavaScript runs one callback to completion, so the transport's events   *)
(* (data, end, error, write completion) are taken only while the loop is   *)
(* suspended in an await on the transport or has finished; an event that   *)
(* settles the awaited promise runs the loop's continuation with it.       *)
(***************************************************************************)
EXTENDS Integers, Sequences, FiniteSets, TLC

VARIABLES
    cur,        \* the connection whose socket the event loop is serving
    peers,      \* the other connections: each one's socket, conn, buf, reader
    script,     \* the requests the client sends, each a byte sequence
    pos,        \* number of bytes of the client's stream delivered so far
    sock,       \* net.Socket: [destroyed, writing, part]
    flowing,    \* net.Socket: resumed (data events flow) or paused
    conn,       \* TCPConn of soInit: [err, ended, reader]
    buf,        \* DynBuf of serverClient: [data, length]
    pc,         \* position of serverClient
    ctx,        \* caller of the body reader's read: "resp" or "drain"
    msg,        \* HTTPReq returned by cutMessage
    remain,     \* readerFromConnLength: bytes of the body still to read
    resp,       \* HTTPRes of handleReq: [code, headers, body, length, done]
    handled,    \* the requests handed to handleReq, in order
    written,    \* the responses written: [head, body, complete]
    failure     \* what serverClient threw: [kind, status, message]

vars == <<cur, peers, script, pos, sock, flowing, conn, buf, pc, ctx, msg, remain, resp,
          handled, written, failure>>

(***************************************************************************)
(* Bounds of the model.                                                    *)
(***************************************************************************)
MaxReqs == 2    \* requests in one client stream
MaxBody == 2    \* largest declared body length of an echo request
Slack == 2      \* buffer sizes checked on each side of kMaxHeaderSize
MaxConns == 2   \* connections served at the same time

(***************************************************************************)
(* Bytes and strings.                                                      *)
(***************************************************************************)
CR == "\r"
LF == "\n"
SP == " "
HT == "\t"
CRLF == <<CR, LF>>
Terminator == <<CR, LF, CR, LF>>

Digits == <<"0", "1", "2", "3", "4", "5", "6", "7", "8", "9">>
Digit == {Digits[i] : i \in 1..10}
UpperSeq == <<"A", "B", "C", "D", "E", "F", "G", "H", "I", "J", "K", "L", "M",
              "N", "O", "P", "Q", "R", "S", "T", "U", "V", "W", "X", "Y", "Z">>
LowerSeq == <<"a", "b", "c", "d", "e", "f", "g", "h", "i", "j", "k", "l", "m",
              "n", "o", "p", "q", "r", "s", "t", "u", "v", "w", "x", "y", "z">>
Upper == {UpperSeq[i] : i \in 1..26}
Lower == {LowerSeq[i] : i \in 1..26}
\* the characters tokenRegex admits in a field name (the backquote, which no
\* stream of the model holds, is left out: TLA+ strings cannot hold it)
TokenChar == Digit \cup Upper \cup Lower \cup
             {"!", "#", "$", "%", "&", "'", "*", "+", "-", ".", "^", "_", "|", "~"}
\* control characters that can occur in the modelled streams
Control == {CR, LF, "\f"}
\* String.prototype.trim strips these
WhiteSpace == {SP, HT, CR, LF, "\f"}

StrGET == <<"G", "E", "T">>
StrPOST == <<"P", "O", "S", "T">>
StrPUT == <<"P", "U", "T">>
StrDELETE == <<"D", "E", "L", "E", "T", "E">>
StrHEAD == <<"H", "E", "A", "D">>
StrOPTIONS == <<"O", "P", "T", "I", "O", "N", "S">>
StrPATCH == <<"P", "A", "T", "C", "H">>
StrTRACE == <<"T", "R", "A", "C", "E">>
StrHTTP == <<"H", "T", "T", "P", "/">>
Str10 == <<"1", ".", "0">>
Str11 == <<"1", ".", "1">>
StrEcho == <<"/", "e", "c", "h", "o">>
StrHello == <<"/", "h", "e", "l", "l", "o">>
StrHelloWorld == <<"h", "e", "l", "l", "o", " ", "w", "o", "r", "l", "d", ".", "\n">>
StrServer == <<"S", "e", "r", "v", "e", "r", ":", " ", "m", "y", "_", "f", "i", "r",
               "s", "t", "_", "h", "t", "t", "p", "_", "s", "e", "r", "v", "e", "r">>
StrContentLength == <<"C", "o", "n", "t", "e", "n", "t", "-", "L", "e", "n", "g", "t", "h">>
StrTransferEncoding == <<"T", "r", "a", "n", "s", "f", "e", "r", "-", "E", "n", "c",
                         "o", "d", "i", "n", "g">>
StrChunked == <<"c", "h", "u", "n", "k", "e", "d">>
StrStatusPrefix == <<"H", "T", "T", "P", "/", "1", ".", "1", " ">>
StrOK == <<" ", "O", "K">>

Min(a, b) == IF a < b THEN a ELSE b
MinOf(S) == CHOOSE x \in S : \A y \in S : x <= y
Last(s) == s[Len(s)]

RECURSIVE Flatten(_)
Flatten(ss) == IF ss = <<>> THEN <<>> ELSE Head(ss) \o Flatten(Tail(ss))

\* Buffer.prototype.indexOf / String.prototype.indexOf: 0-based, -1 if absent
indexOf(s, pat) ==
    LET at == {i \in 1..(Len(s) - Len(pat) + 1) :
                  \A j \in 1..Len(pat) : s[i + j - 1] = pat[j]}
    IN  IF at = {} THEN -1 ELSE MinOf(at) - 1

startsWith(s, pat) ==
    Len(s) >= Len(pat) /\ \A j \in 1..Len(pat) : s[j] = pat[j]

\* String.prototype.trim
trim(s) ==
    LET keep == {i \in 1..Len(s) : s[i] \notin WhiteSpace}
        last == CHOOSE i \in keep : \A j \in (i + 1)..Len(s) : s[j] \in WhiteSpace
    IN  IF keep = {} THEN <<>> ELSE SubSeq(s, MinOf(keep), last)

toLowerChar(c) ==
    IF c \in Upper THEN LowerSeq[CHOOSE i \in 1..26 : UpperSeq[i] = c] ELSE c

\* String.prototype.toLowerCase
toLowerCase(s) == [i \in 1..Len(s) |-> toLowerChar(s[i])]

\* String.prototype.split(" ")
RECURSIVE split(_)
split(s) ==
    LET at == {i \in 1..Len(s) : s[i] = SP}
    IN  IF at = {} THEN <<s>>
        ELSE <<SubSeq(s, 1, MinOf(at) - 1)>> \o split(SubSeq(s, MinOf(at) + 1, Len(s)))

\* Array.prototype.join("\r\n")
RECURSIVE join(_)
join(lines) ==
    IF lines = <<>> THEN <<>>
    ELSE IF Len(lines) = 1 THEN lines[1]
    ELSE lines[1] \o CRLF \o join(Tail(lines))

DigitVal(c) == (CHOOSE i \in 1..10 : Digits[i] = c) - 1

\* the decimal digits of a number, as template literals print it
RECURSIVE toDec(_)
toDec(n) ==
    IF n < 0 THEN <<"-">> \o toDec(0 - n)
    ELSE IF n < 10 THEN <<Digits[n + 1]>>
    ELSE toDec(n \div 10) \o <<Digits[(n % 10) + 1]>>

(***************************************************************************)
(* The receive buffer.                                                     *)
(***************************************************************************)
\* buf.data.copyWithin(0, len, buf.length): the bytes are moved to the front,
\* the allocation keeps its size
copyWithin(data, start, end) ==
    [i \in 1..Len(data) |-> IF i <= end - start /\ start + i <= Len(data)
                            THEN data[start + i] ELSE data[i]]

bufPop(b, len) ==
    [data |-> copyWithin(b.data, len, b.length), length |-> b.length - len]

\* Buffer.concat([buf.data, data]) over the whole allocation; the length
\* becomes the length of the allocation
bufpush(b, data) ==
    [data |-> b.data \o data, length |-> Len(b.data \o data)]

\* buf.data.subarray(0, buf.length)
Valid(b) == SubSeq(b.data, 1, b.length)

(***************************************************************************)
(* The boundary scanner and the request parser.                            *)
(***************************************************************************)
kMaxHeaderSize == 1024 * 8

RECURSIVE splitFrom(_, _)
splitFrom(data, start) ==
    LET nl == {i \in start..Len(data) : data[i] = LF}
    IN  IF nl = {}
        THEN IF start <= Len(data) THEN <<SubSeq(data, start, Len(data))>> ELSE <<>>
        ELSE LET i == MinOf(nl)
                 end == IF i > 1 /\ data[i - 1] = CR THEN i - 1 ELSE i
             IN  <<SubSeq(data, start, end - 1)>> \o splitFrom(data, i + 1)

splitLines(data) == splitFrom(data, 1)

\* new HTTPError(status, message); of a message built by a template literal
\* the fixed text is kept
HTTPError(st, message) == [ok |-> FALSE, status |-> st, message |-> message]

validMethods ==
    {StrGET, StrPOST, StrPUT, StrDELETE, StrHEAD, StrOPTIONS, StrPATCH, StrTRACE}

\* the version's pattern: HTTP/ digits . digits
versionMatch(v) ==
    /\ startsWith(v, StrHTTP)
    /\ LET rest == SubSeq(v, Len(StrHTTP) + 1, Len(v))
           dot == indexOf(rest, <<".">>)
       IN  /\ dot >= 1
           /\ dot + 1 < Len(rest)
           /\ \A i \in 1..Len(rest) : i # dot + 1 => rest[i] \in Digit

parseRequestLineTargetFirst(line) ==
    LET parts == split(line)
    IN  IF Len(parts) # 3
        THEN HTTPError(400, "Bad Request: Invalid request line format")
        ELSE IF parts[1] = <<>> \/ parts[2] = <<>> \/ parts[3] = <<>>
        THEN HTTPError(400, "Missing request line components")
        ELSE IF ~startsWith(parts[2], <<"/">>)
        THEN HTTPError(400, "Invalid URI format")
        ELSE IF parts[1] \notin validMethods
        THEN HTTPError(405, "Method Not Allowed")
        ELSE [ok |-> TRUE, method |-> parts[1], uri |-> parts[2], version |-> parts[3]]

parseRequestLineFirstThree(line) ==
    LET parts == split(line)
    IN  IF Len(parts) < 3
        THEN HTTPError(400, "Bad Request: Invalid request line format")
        ELSE IF parts[1] = <<>> \/ parts[2] = <<>> \/ parts[3] = <<>>
        THEN HTTPError(400, "Missing request line components")
        ELSE IF parts[1] \notin validMethods
        THEN HTTPError(405, "Method Not Allowed")
        ELSE IF ~startsWith(parts[2], <<"/">>)
        THEN HTTPError(400, "Invalid URI format")
        ELSE IF ~versionMatch(parts[3])
        THEN HTTPError(400, "Invalid HTTP version")
        ELSE [ok |-> TRUE, method |-> parts[1], uri |-> parts[2], version |-> parts[3]]

parseRequestLine(line) ==
    LET parts == split(line)
    IN  IF Len(parts) # 3
        THEN HTTPError(400, "Bad Request: Invalid request line format")
        ELSE IF parts[1] = <<>> \/ parts[2] = <<>> \/ parts[3] = <<>>
        THEN HTTPError(400, "Missing request line components")
        ELSE IF parts[1] \notin validMethods
        THEN HTTPError(405, "Method Not Allowed")
        ELSE IF ~startsWith(parts[2], <<"/">>)
        THEN HTTPError(400, "Invalid URI format")
        ELSE IF ~versionMatch(parts[3])
        THEN HTTPError(400, "Invalid HTTP version")
        ELSE [ok |-> TRUE, method |-> parts[1], uri |-> parts[2], version |-> parts[3]]

validateHeader(header) ==
    LET colonIndex == indexOf(header, <<":">>)
        name == trim(SubSeq(header, 1, colonIndex))
        value == trim(SubSeq(header, colonIndex + 2, Len(header)))
    IN  /\ colonIndex # -1
        /\ name # <<>>
        /\ \A i \in 1..Len(name) : name[i] \in TokenChar
        /\ \A i \in 1..Len(value) : value[i] \notin Control

parseHTTPReq(data) ==
    LET lines == splitLines(data)
        rl == parseRequestLine(lines[1])
        empties == {i \in 2..Len(lines) : lines[i] = <<>>}
        stop == IF empties = {} THEN Len(lines) + 1 ELSE MinOf(empties)
    IN  IF ~rl.ok THEN rl
        ELSE IF \E i \in 2..(stop - 1) : ~validateHeader(lines[i])
        THEN HTTPError(400, "Bad Request: Invalid header format")
        ELSE [ok |-> TRUE,
              req |-> [method |-> rl.method, uri |-> rl.uri, version |-> rl.version,
                       headers |-> SubSeq(lines, 2, stop - 1)]]

tooLargeAtLimit(length) == length >= kMaxHeaderSize

\* cutMessage: buf.length > kMaxHeaderSize
tooLarge(length) == length > kMaxHeaderSize

cutMessageTakesAll(b) ==
    LET idx == indexOf(Valid(b), Terminator)
    IN  IF idx < 0
        THEN IF tooLarge(b.length)
             THEN [kind |-> "throw", err |-> HTTPError(413, "Request Entity Too Large"), buf |-> b]
             ELSE [kind |-> "null", buf |-> b]
        ELSE LET m == parseHTTPReq(SubSeq(b.data, 1, idx + 4))
             IN  IF ~m.ok
                 THEN [kind |-> "throw", err |-> m, buf |-> b]
                 ELSE [kind |-> "msg", msg |-> m.req, buf |-> bufPop(b, b.length)]

\* null | HTTPReq | a thrown HTTPError, and the buffer it leaves
cutMessage(b) ==
    LET idx == indexOf(Valid(b), Terminator)
    IN  IF idx < 0
        THEN IF tooLarge(b.length)
             THEN [kind |-> "throw", err |-> HTTPError(413, "Request Entity Too Large"), buf |-> b]
             ELSE [kind |-> "null", buf |-> b]
        ELSE LET m == parseHTTPReq(SubSeq(b.data, 1, idx + 4))
             IN  IF ~m.ok
                 THEN [kind |-> "throw", err |-> m, buf |-> b]
                 ELSE [kind |-> "msg", msg |-> m.req, buf |-> bufPop(b, idx + 4)]

(***************************************************************************)
(* Header utilities and the response head.                                 *)
(***************************************************************************)
fieldGet(headers, key) ==
    LET lowerKey == toLowerCase(key)
        colonIndex(h) == indexOf(h, <<":">>)
        hit == {i \in 1..Len(headers) :
                   /\ colonIndex(headers[i]) > 0
                   /\ toLowerCase(trim(SubSeq(headers[i], 1, colonIndex(headers[i]))))
                        = lowerKey}
    IN  IF hit = {} THEN [found |-> FALSE, value |-> <<>>]
        ELSE LET h == headers[MinOf(hit)]
             IN  [found |-> TRUE, value |-> trim(SubSeq(h, colonIndex(h) + 2, Len(h)))]

RECURSIVE digitsVal(_)
digitsVal(ds) ==
    IF ds = <<>> THEN 0
    ELSE digitsVal(SubSeq(ds, 1, Len(ds) - 1)) * 10 + DigitVal(Last(ds))

\* parseInt(str, 10): leading white space, a sign, then the longest run of
\* digits; NaN when there is no digit
parseDec(str) ==
    LET nonWs == {i \in 1..Len(str) : str[i] \notin WhiteSpace}
        s == IF nonWs = {} THEN <<>> ELSE SubSeq(str, MinOf(nonWs), Len(str))
        signed == s # <<>> /\ s[1] \in {"-", "+"}
        rest == IF signed THEN Tail(s) ELSE s
        nonDigit == {i \in 1..Len(rest) : rest[i] \notin Digit}
        n == IF nonDigit = {} THEN Len(rest) ELSE MinOf(nonDigit) - 1
        v == digitsVal(SubSeq(rest, 1, n))
    IN  IF n = 0 THEN [nan |-> TRUE, val |-> 0]
        ELSE [nan |-> FALSE, val |-> IF signed /\ s[1] = "-" THEN 0 - v ELSE v]

encodeHTTPResp(r) ==
    join(<<StrStatusPrefix \o toDec(r.code) \o StrOK>> \o r.headers \o << <<>> >>)

(***************************************************************************)
(* Body readers.                                                           *)
(***************************************************************************)
readerFromReqChunkedFirst(req) ==
    LET contentLen == fieldGet(req.headers, StrContentLength)
        parsed == parseDec(contentLen.value)
        bodyLen == IF contentLen.found THEN parsed.val ELSE -1
        bodyAllowed == ~(req.method = StrGET \/ req.method = StrHEAD)
        te == fieldGet(req.headers, StrTransferEncoding)
        chunked == te.found /\ te.value = StrChunked
    IN  IF contentLen.found /\ parsed.nan
        THEN HTTPError(400, "bad Content-Length.")
        ELSE IF ~bodyAllowed /\ (bodyLen > 0 \/ chunked)
        THEN HTTPError(400, "HTTP body not allowed.")
        ELSE IF ~bodyAllowed
        THEN [ok |-> TRUE, length |-> 0]
        ELSE IF chunked
        THEN HTTPError(501, "TODO: chunked encoding")
        ELSE IF bodyLen >= 0
        THEN [ok |-> TRUE, length |-> bodyLen]
        ELSE HTTPError(501, "TODO: read until EOF")

\* the body reader of a request: its declared length, or the HTTPError thrown
readerFromReq(req) ==
    LET contentLen == fieldGet(req.headers, StrContentLength)
        parsed == parseDec(contentLen.value)
        bodyLen == IF contentLen.found THEN parsed.val ELSE -1
        bodyAllowed == ~(req.method = StrGET \/ req.method = StrHEAD)
        te == fieldGet(req.headers, StrTransferEncoding)
        chunked == te.found /\ te.value = StrChunked
    IN  IF contentLen.found /\ parsed.nan
        THEN HTTPError(400, "bad Content-Length.")
        ELSE IF ~bodyAllowed /\ (bodyLen > 0 \/ chunked)
        THEN HTTPError(400, "HTTP body not allowed.")
        ELSE IF ~bodyAllowed
        THEN [ok |-> TRUE, length |-> 0]
        ELSE IF bodyLen >= 0
        THEN [ok |-> TRUE, length |-> bodyLen]
        ELSE IF chunked
        THEN HTTPError(501, "TODO: chunked encoding")
        ELSE HTTPError(501, "TODO: read until EOF")

consumeAll(b, rem) == b.length

\* readerFromConnLength: const consume = Math.min(buf.length, remain)
consumeLen(b, rem) == Min(b.length, rem)

takeUncounted(b, rem) ==
    LET consume == consumeLen(b, rem)
    IN  [data |-> SubSeq(b.data, 1, consume),
         buf |-> bufPop(b, consume),
         remain |-> rem]

\* readerFromConnLength.read once the buffer holds bytes: the chunk returned,
\* the buffer and the count left
take(b, rem) ==
    LET consume == consumeLen(b, rem)
    IN  [data |-> SubSeq(b.data, 1, consume),
         buf |-> bufPop(b, consume),
         remain |-> rem - consume]

(***************************************************************************)
(* The client's streams.                                                   *)
(***************************************************************************)
StrHTTP11 == StrHTTP \o Str11
StrHTTP10 == StrHTTP \o Str10
StrFOO == <<"F", "O", "O">>
StrBodyText == <<"h", "e", "l", "l", "o", "w", "o", "r", "l", "d">>

RequestLine(method, target, version) == method \o <<SP>> \o target \o <<SP>> \o version
HeaderBlock(line, headers) == join(<<line>> \o headers) \o Terminator
HeaderLine(name, value) == name \o <<":", SP>> \o value

Body(n) == SubSeq(StrBodyText, 1, n)
Get11 == HeaderBlock(RequestLine(StrGET, StrHello, StrHTTP11), <<>>)
EchoHead(version, value) ==
    HeaderBlock(RequestLine(StrPOST, StrEcho, version),
                <<HeaderLine(StrContentLength, value)>>)
Echo(version, n) == EchoHead(version, toDec(n)) \o Body(n)
Foo == HeaderBlock(RequestLine(StrFOO, <<"/">>, StrHTTP11), <<>>)
NegLen == EchoHead(StrHTTP11, <<"-", "1">>)

Echo11s == {Echo(StrHTTP11, n) : n \in {0, MaxBody}}
Echo10s == {Echo(StrHTTP10, MaxBody)}
\* requests after which the client may send another one
Good == {Get11} \cup Echo11s \cup Echo10s
Requests == Good \cup {Foo, NegLen}
\* up to MaxReqs requests: any request last, a well-formed one before it, and
\* GETs before those two
Scripts ==
    {sc \in UNION {[1..n -> Requests] : n \in 1..MaxReqs} :
        /\ \A i \in 1..(Len(sc) - 1) : sc[i] \in Good
        /\ \A i \in 1..(Len(sc) - 2) : sc[i] = Get11}

Wire == Flatten(script)

\* Where a data event may end, counted from the start of a request: inside
\* the request line, one byte before and right at the end of the header
\* block, after each byte of the body.  The loop tells chunks apart only by
\* whether the terminator is complete and by how much of the body they hold.
HeadLen(r) == indexOf(r, Terminator) + 4
Offsets(r) == ({1, HeadLen(r) - 1} \cup HeadLen(r)..Len(r)) \cap 1..Len(r)
RECURSIVE StartOf(_, _)
StartOf(sc, i) == IF i = 1 THEN 0 ELSE StartOf(sc, i - 1) + Len(sc[i - 1])
Boundaries == UNION {{StartOf(script, i) + o : o \in Offsets(script[i])} :
                        i \in 1..Len(script)}

(***************************************************************************)
(* The connection: soInit, and serverClient about to enter its loop.       *)
(***************************************************************************)
NoMsg == [method |-> <<>>, uri |-> <<>>, version |-> <<>>, headers |-> <<>>]
NoResp == [code |-> 0, headers |-> <<>>, body |-> "none", length |-> 0,
           data |-> <<>>, done |-> FALSE]
NoFailure == [kind |-> "none", status |-> 0, message |-> ""]
Thrown(e) == [kind |-> "http", status |-> e.status, message |-> e.message]
TransportError == [kind |-> "io", status |-> 0, message |-> "socket error"]
BodyEOF == [kind |-> "error", status |-> 0, message |-> "Unexpected EOF from HTTP body"]

soInit == [err |-> FALSE, ended |-> FALSE, reader |-> FALSE]

InitConn ==
    /\ pos = 0
    /\ sock = [destroyed |-> FALSE, writing |-> <<>>, part |-> "none"]
    /\ flowing = FALSE
    /\ conn = soInit
    /\ buf = [data |-> <<>>, length |-> 0]
    /\ pc = "cut"
    /\ ctx = "resp"
    /\ msg = NoMsg
    /\ remain = 0
    /\ resp = NoResp
    /\ handled = <<>>
    /\ written = <<>>
    /\ failure = NoFailure

\* one connection, no other
SingleConn == cur = 1 /\ peers = <<>>

Init == script \in Scripts /\ InitConn /\ SingleConn

(***************************************************************************)
(* newConn's catch, soRead and soWrite as the loop calls them.             *)
(***************************************************************************)
newConnCatchAndLeaveOpen(f) ==
    /\ pc' = "failed"
    /\ failure' = f
    /\ sock' = sock

\* serverClient(conn).catch(err => { ...; socket.destroy() })
newConnCatch(f) ==
    /\ pc' = "failed"
    /\ failure' = f
    /\ sock' = [sock EXCEPT !.destroyed = TRUE, !.writing = <<>>, !.part = "none"]

\* soRead: rejected, resolved at once with EOF (the caller goes on as gotEOF
\* says), or left pending; kvars are the variables the caller's continuation
\* sets
soRead(waiting, gotEOF, kvars) ==
    IF conn.err
    THEN newConnCatch(TransportError) /\ UNCHANGED <<conn, flowing, kvars>>
    ELSE IF conn.ended
    THEN UNCHANGED <<conn, flowing>> /\ gotEOF
    ELSE /\ conn' = [conn EXCEPT !.reader = TRUE]
         /\ flowing' = TRUE
         /\ pc' = waiting
         /\ UNCHANGED <<sock, failure, kvars>>

soWriteUnchecked(data, part) ==
    /\ sock' = [sock EXCEPT !.writing = data, !.part = part]
    /\ pc' = "wait_write"
    /\ UNCHANGED failure

\* soWrite: rejected, or handed to socket.write
soWrite(data, part) ==
    IF conn.err
    THEN newConnCatch(TransportError)
    ELSE /\ sock' = [sock EXCEPT !.writing = data, !.part = part]
         /\ pc' = "wait_write"
         /\ UNCHANGED failure

(***************************************************************************)
(* serverClient.                                                           *)
(***************************************************************************)
\* after const data = await soRead(conn): bufpush and the two tests of an
\* empty read
gotHead(data) ==
    /\ buf' = bufpush(buf, data)
    /\ IF Len(data) = 0 /\ conn'.ended
       THEN pc' = "done" /\ UNCHANGED <<sock, failure>>
       ELSE IF Len(data) = 0 /\ conn'.err
       THEN newConnCatch([kind |-> "http", status |-> 400, message |-> "Unexpected EOF."])
       ELSE pc' = "cut" /\ UNCHANGED <<sock, failure>>

\* const msg = cutMessage(buf); if (!msg) { const data = await soRead(conn)
CutMessage ==
    /\ pc = "cut"
    /\ LET r == cutMessage(buf)
       IN  IF r.kind = "throw"
           THEN newConnCatch(Thrown(r.err)) /\ UNCHANGED <<buf, msg, conn, flowing>>
           ELSE IF r.kind = "null"
           THEN soRead("wait_head", gotHead(<<>>), <<buf>>) /\ UNCHANGED msg
           ELSE /\ buf' = r.buf
                /\ msg' = r.msg
                /\ pc' = "reader"
                /\ UNCHANGED <<conn, sock, flowing, failure>>
    /\ UNCHANGED <<cur, peers, script, pos, ctx, remain, resp, handled, written>>

\* const reqBody = readerFromReq(conn, buf, msg)
ReaderFromReq ==
    /\ pc = "reader"
    /\ LET r == readerFromReq(msg)
       IN  IF r.ok
           THEN remain' = r.length /\ pc' = "handle" /\ UNCHANGED <<sock, failure>>
           ELSE newConnCatch(Thrown(r)) /\ UNCHANGED remain
    /\ UNCHANGED <<cur, peers, script, pos, flowing, conn, buf, ctx, msg, resp, handled, written>>

\* handleReq(msg, reqBody): the request body for /echo, else the greeting
handleReq(req, bodyLength) ==
    [code |-> 200,
     headers |-> <<StrServer>>,
     body |-> IF req.uri = StrEcho THEN "conn" ELSE "mem",
     length |-> IF req.uri = StrEcho THEN bodyLength ELSE Len(StrHelloWorld),
     data |-> IF req.uri = StrEcho THEN <<>> ELSE StrHelloWorld,
     done |-> FALSE]

HandleReq ==
    /\ pc = "handle"
    /\ handled' = Append(handled, msg)
    /\ resp' = handleReq(msg, remain)
    /\ pc' = "write_head"
    /\ UNCHANGED <<cur, peers, script, pos, sock, flowing, conn, buf, ctx, msg, remain, written,
                   failure>>

\* writeHTTPResp up to the write of the head
WriteHead ==
    /\ pc = "write_head"
    /\ IF resp.length < 0
       THEN /\ newConnCatch([kind |-> "error", status |-> 0,
                             message |-> "TODO: chunked encoding"])
            /\ UNCHANGED resp
       ELSE /\ resp' = [resp EXCEPT !.headers =
                          Append(@, HeaderLine(StrContentLength, toDec(resp.length)))]
            /\ soWrite(encodeHTTPResp(resp'), "head")
    /\ UNCHANGED <<cur, peers, script, pos, flowing, conn, buf, ctx, msg, remain, handled, written>>

\* what the caller of reqBody.read / resp.body.read does with the chunk:
\* writeHTTPResp writes it or leaves its loop, the drain loop drops it
readerReturn(caller, chunk) ==
    IF caller = "resp"
    THEN IF chunk = <<>>
         THEN /\ written' = [written EXCEPT ![Len(written)].complete = TRUE]
              /\ pc' = "persist"
              /\ UNCHANGED <<sock, failure>>
         ELSE soWrite(chunk, "body") /\ UNCHANGED written
    ELSE /\ pc' = IF chunk = <<>> THEN "cut" ELSE "drain"
         /\ UNCHANGED <<sock, failure, written>>

gotBodyEmptyIsEnd(data) ==
    IF Len(data) = 0
    THEN /\ buf' = bufpush(buf, data)
         /\ remain' = remain
         /\ readerReturn(ctx', <<>>)
    ELSE LET t == take(bufpush(buf, data), remain)
         IN  /\ buf' = t.buf
             /\ remain' = t.remain
             /\ readerReturn(ctx', t.data)

\* readerFromConnLength.read after its await soRead(conn): bufpush, the EOF
\* test, the take
gotBody(data) ==
    IF Len(data) = 0
    THEN /\ buf' = bufpush(buf, data)
         /\ newConnCatch(BodyEOF)
         /\ UNCHANGED <<remain, written>>
    ELSE LET t == take(bufpush(buf, data), remain)
         IN  /\ buf' = t.buf
             /\ remain' = t.remain
             /\ readerReturn(ctx', t.data)

\* readerFromConnLength.read, up to its await or its return
readerFromConnLength(caller) ==
    /\ ctx' = caller
    /\ IF remain = 0
       THEN readerReturn(caller, <<>>) /\ UNCHANGED <<buf, remain, conn, flowing>>
       ELSE IF buf.length = 0
       THEN soRead("wait_body", gotBody(<<>>), <<buf, remain, written>>)
       ELSE LET t == take(buf, remain)
            IN  /\ buf' = t.buf
                /\ remain' = t.remain
                /\ readerReturn(caller, t.data)
                /\ UNCHANGED <<conn, flowing>>

readerFromMemoryRearmed ==
    /\ resp' = [resp EXCEPT !.done = ~resp.done]
    /\ readerReturn("resp", IF resp.done THEN <<>> ELSE resp.data)
    /\ UNCHANGED <<buf, remain, ctx, conn, flowing>>

\* readerFromMemory.read
readerFromMemory ==
    /\ resp' = [resp EXCEPT !.done = TRUE]
    /\ readerReturn("resp", IF resp.done THEN <<>> ELSE resp.data)
    /\ UNCHANGED <<buf, remain, ctx, conn, flowing>>

\* writeHTTPResp: const data = await resp.body.read()
BodyRead ==
    /\ pc = "body_read"
    /\ IF resp.body = "mem"
       THEN readerFromMemory
       ELSE readerFromConnLength("resp") /\ UNCHANGED resp
    /\ UNCHANGED <<cur, peers, script, pos, msg, handled>>

\* if (msg.version === '1.0') return
Persist ==
    /\ pc = "persist"
    /\ pc' = IF msg.version = Str10 THEN "done" ELSE "drain"
    /\ UNCHANGED <<cur, peers, script, pos, sock, flowing, conn, buf, ctx, msg, remain, resp,
                   handled, written, failure>>

\* while ((await reqBody.read()).length > 0) {}
Drain ==
    /\ pc = "drain"
    /\ readerFromConnLength("drain")
    /\ UNCHANGED <<cur, peers, script, pos, msg, resp, handled>>

(***************************************************************************)
(* The transport's events.                                                 *)
(***************************************************************************)
Suspended == pc \in {"wait_head", "wait_body", "wait_write", "done", "failed"}

\* conn.reader.resolve(data): the loop goes on where it awaited soRead
resolve(data) ==
    IF pc = "wait_head"
    THEN gotHead(data) /\ UNCHANGED <<remain, written, ctx>>
    ELSE UNCHANGED ctx /\ gotBody(data)

SoDataNoPause(upto) ==
    /\ Suspended
    /\ flowing /\ ~sock.destroyed /\ ~conn.err /\ ~conn.ended
    /\ upto > pos
    /\ pos' = upto
    /\ flowing' = flowing
    /\ IF conn.reader
       THEN /\ conn' = [conn EXCEPT !.reader = FALSE]
            /\ resolve(SubSeq(Wire, pos + 1, upto))
       ELSE /\ pc' = "crashed"
            /\ UNCHANGED <<conn, buf, remain, written, ctx, sock, failure>>
    /\ UNCHANGED <<cur, peers, script, msg, resp, handled>>

\* socket.on('data'): the bytes of the client's stream up to position upto;
\* without a reader, conn.reader.resolve throws on null
SoData(upto) ==
    /\ Suspended
    /\ flowing /\ ~sock.destroyed /\ ~conn.err /\ ~conn.ended
    /\ upto > pos
    /\ pos' = upto
    /\ flowing' = FALSE
    /\ IF conn.reader
       THEN /\ conn' = [conn EXCEPT !.reader = FALSE]
            /\ resolve(SubSeq(Wire, pos + 1, upto))
       ELSE /\ pc' = "crashed"
            /\ UNCHANGED <<conn, buf, remain, written, ctx, sock, failure>>
    /\ UNCHANGED <<cur, peers, script, msg, resp, handled>>

\* socket.on('end'): the client closed its side, after any prefix of its stream
SoEnd ==
    /\ Suspended
    /\ flowing /\ ~sock.destroyed /\ ~conn.err /\ ~conn.ended
    /\ IF conn.reader
       THEN /\ conn' = [conn EXCEPT !.ended = TRUE, !.reader = FALSE]
            /\ resolve(<<>>)
       ELSE /\ conn' = [conn EXCEPT !.ended = TRUE]
            /\ UNCHANGED <<pc, buf, remain, written, ctx, sock, failure>>
    /\ UNCHANGED <<cur, peers, script, pos, flowing, msg, resp, handled>>

\* socket.on('error'): conn.reader.reject(err) fails the loop
SoError ==
    /\ Suspended
    /\ ~sock.destroyed /\ ~conn.err
    /\ IF conn.reader
       THEN /\ conn' = [conn EXCEPT !.err = TRUE, !.reader = FALSE]
            /\ newConnCatch(TransportError)
       ELSE /\ conn' = [conn EXCEPT !.err = TRUE]
            /\ UNCHANGED <<pc, sock, failure>>
    /\ UNCHANGED <<cur, peers, script, pos, flowing, buf, ctx, msg, remain, resp, handled, written>>

\* the callback of socket.write without an error
WriteDone ==
    /\ pc = "wait_write"
    /\ ~sock.destroyed
    /\ written' = IF sock.part = "head"
                  THEN Append(written, [head |-> sock.writing, body |-> <<>>,
                                        complete |-> FALSE])
                  ELSE [written EXCEPT ![Len(written)].body = @ \o sock.writing]
    /\ sock' = [sock EXCEPT !.writing = <<>>, !.part = "none"]
    /\ pc' = "body_read"
    /\ UNCHANGED <<cur, peers, script, pos, flowing, conn, buf, ctx, msg, remain, resp, handled,
                   failure>>

\* the callback of socket.write with an error
WriteFail ==
    /\ pc = "wait_write"
    /\ ~sock.destroyed
    /\ newConnCatch(TransportError)
    /\ UNCHANGED <<cur, peers, script, pos, flowing, conn, buf, ctx, msg, remain, resp, handled,
                   written>>

Next ==
    \/ CutMessage
    \/ ReaderFromReq
    \/ HandleReq
    \/ WriteHead
    \/ BodyRead
    \/ Persist
    \/ Drain
    \/ \E upto \in Boundaries : SoData(upto)
    \/ SoEnd
    \/ SoError
    \/ WriteDone
    \/ WriteFail

Spec == Init /\ [][Next]_vars

(***************************************************************************)
(* One extraction from a buffer holding what a single data event brought:  *)
(* request lines of every shape, and header blocks around kMaxHeaderSize.  *)
(***************************************************************************)
StrGet == <<"g", "e", "t">>
Methods == validMethods \cup {StrFOO, StrGet, <<>>}
Targets == {<<"/">>, StrEcho, <<"x">>}
Versions == {StrHTTP11, StrHTTP10, StrHTTP \o <<"x">>, Str11}
RequestLines ==
    {RequestLine(m, t, v) : m \in Methods, t \in Targets, v \in Versions}
      \cup {RequestLine(StrGET, <<"/">>, StrHTTP11) \o <<SP, "x">>,
            StrGET \o <<SP, "/">>,
            StrGET \o <<SP, SP, "/", SP>> \o StrHTTP11,
            StrGET,
            <<>>}

\* n bytes of a request line and one header with a long value
LongHead(n) ==
    LET pre == RequestLine(StrGET, <<"/">>, StrHTTP11) \o CRLF \o <<"X", ":", SP>>
    IN  [i \in 1..n |-> IF i <= Len(pre) THEN pre[i] ELSE "a"]
Sizes == (kMaxHeaderSize - Slack)..(kMaxHeaderSize + Slack)
Unterminated == {LongHead(n) : n \in Sizes}
Terminated == {LongHead(n - 4) \o Terminator : n \in Sizes}

CutInputs == {HeaderBlock(l, <<>>) : l \in RequestLines} \cup Unterminated \cup Terminated

InitCut ==
    /\ SingleConn
    /\ script \in {<<d>> : d \in CutInputs}
    /\ pos = Len(Wire)
    /\ sock = [destroyed |-> FALSE, writing |-> <<>>, part |-> "none"]
    /\ flowing = FALSE
    /\ conn = soInit
    /\ buf = bufpush([data |-> <<>>, length |-> 0], Wire)
    /\ pc = "cut"
    /\ ctx = "resp"
    /\ msg = NoMsg
    /\ remain = 0
    /\ resp = NoResp
    /\ handled = <<>>
    /\ written = <<>>
    /\ failure = NoFailure

SpecCut == InitCut /\ [][CutMessage]_vars

(***************************************************************************)
(* One request on /echo for the body-reader factory: a method that forbids  *)
(* or allows a body, with or without a length header and a chunked marker. *)
(***************************************************************************)
FactoryMethods == {StrGET, StrHEAD, StrPOST}
LengthValues == {toDec(0), toDec(MaxBody), <<"-", "1">>, <<"x">>}
LengthHeaders == {<<>>} \cup {<<HeaderLine(StrContentLength, v)>> : v \in LengthValues}
EncodingHeaders == {<<>>, <<HeaderLine(StrTransferEncoding, StrChunked)>>}
FactoryRequest(method, ls, es) ==
    HeaderBlock(RequestLine(method, StrEcho, StrHTTP11), ls \o es)
      \o (IF ls = <<HeaderLine(StrContentLength, toDec(MaxBody))>>
          THEN Body(MaxBody) ELSE <<>>)
FactoryInputs ==
    {FactoryRequest(m, ls, es) :
        m \in FactoryMethods, ls \in LengthHeaders, es \in EncodingHeaders}

InitFactory == script \in {<<d>> : d \in FactoryInputs} /\ InitConn /\ SingleConn

SpecFactory == InitFactory /\ [][Next]_vars

(***************************************************************************)
(* soRead and soWrite called on a wrapper in each state of its error and   *)
(* end flags: the loop starts with the header block of one request in its  *)
(* buffer or with nothing, on a wrapper whose flags are set or not.        *)
(***************************************************************************)
FlagRequests == {Get11, Echo(StrHTTP11, MaxBody)}
FlagStates == [err : BOOLEAN, ended : BOOLEAN, reader : {FALSE}]

InitFlags ==
    /\ SingleConn
    /\ script \in {<<r>> : r \in FlagRequests}
    /\ pos \in {0, HeadLen(script[1])}
    /\ sock = [destroyed |-> FALSE, writing |-> <<>>, part |-> "none"]
    /\ flowing = FALSE
    /\ conn \in FlagStates
    /\ buf = bufpush([data |-> <<>>, length |-> 0], SubSeq(Wire, 1, pos))
    /\ pc = "cut"
    /\ ctx = "resp"
    /\ msg = NoMsg
    /\ remain = 0
    /\ resp = NoResp
    /\ handled = <<>>
    /\ written = <<>>
    /\ failure = NoFailure

SpecFlags == InitFlags /\ [][Next]_vars

(***************************************************************************)
(* One extraction from a buffer holding a header block with a valid        *)
(* request line and header lines of every shape: names and values with     *)
(* white space and control characters, lines without a colon, and an empty *)
(* line (ended by a bare LF) before the terminator.                        *)
(***************************************************************************)
HeaderNames == {<<"X">>, <<"X", "-", "Y">>, <<SP, "X">>, <<"X", SP>>, <<HT, "X">>,
                <<"X", SP, "Y">>, <<"(", "X">>, <<>>}
HeaderValues == {<<"v">>, <<SP, "v">>, <<"a", HT, "b">>, <<"a", "\f", "b">>,
                 <<"v", "\f">>, <<>>}
HeaderLines == {n \o <<":">> \o v : n \in HeaderNames, v \in HeaderValues}
                 \cup {<<"X">>, <<"X", SP, "v">>}
GetLine == RequestLine(StrGET, <<"/">>, StrHTTP11)
HeaderInputs ==
    {HeaderBlock(GetLine, <<l>>) : l \in HeaderLines}
      \cup {HeaderBlock(GetLine, <<HeaderLine(<<"X">>, <<"v">>), l>>) : l \in HeaderLines}
      \cup {GetLine \o <<LF, LF>> \o l \o Terminator : l \in HeaderLines}
      \cup {GetLine \o CRLF \o l \o <<LF, LF>> \o l \o Terminator : l \in HeaderLines}

InitHeaders ==
    /\ SingleConn
    /\ script \in {<<d>> : d \in HeaderInputs}
    /\ pos = Len(Wire)
    /\ sock = [destroyed |-> FALSE, writing |-> <<>>, part |-> "none"]
    /\ flowing = FALSE
    /\ conn = soInit
    /\ buf = bufpush([data |-> <<>>, length |-> 0], Wire)
    /\ pc = "cut"
    /\ ctx = "resp"
    /\ msg = NoMsg
    /\ remain = 0
    /\ resp = NoResp
    /\ handled = <<>>
    /\ written = <<>>
    /\ failure = NoFailure

SpecHeaders == InitHeaders /\ [][CutMessage]_vars

(***************************************************************************)
(* The receive buffer by itself: a few bytes appended chunk by chunk with   *)
(* bufpush, and prefixes removed with bufPop, in any order.                *)
(***************************************************************************)
BufStreams == {StrEcho, StrHello}
PopSizes == 1..(MaxBody + 1)

\* bufpush(buf, data) with the next bytes of the stream
BufPush(upto) ==
    /\ upto > pos
    /\ pos' = upto
    /\ buf' = bufpush(buf, SubSeq(Wire, pos + 1, upto))
    /\ UNCHANGED <<cur, peers, script, sock, flowing, conn, pc, ctx, msg, remain, resp,
                   handled, written, failure>>

\* bufPop(buf, n) with n within the logical length
BufPop(n) ==
    /\ n <= buf.length
    /\ buf' = bufPop(buf, n)
    /\ UNCHANGED <<cur, peers, script, pos, sock, flowing, conn, pc, ctx, msg, remain, resp,
                   handled, written, failure>>

\* bufPop(buf, n) with n beyond the logical length: the function has no test
\* of n and throws nothing
BufPopBeyond(n) ==
    /\ n > buf.length /\ buf.length >= 0
    /\ buf' = bufPop(buf, n)
    /\ UNCHANGED <<cur, peers, script, pos, sock, flowing, conn, pc, ctx, msg, remain, resp,
                   handled, written, failure>>

InitBuf == script \in {<<r>> : r \in BufStreams} /\ InitConn /\ SingleConn

NextBuf ==
    \/ \E upto \in 1..Len(Wire) : BufPush(upto)
    \/ \E n \in PopSizes : BufPop(n)

SpecBuf == InitBuf /\ [][NextBuf]_vars

NextPop ==
    \/ NextBuf
    \/ \E n \in PopSizes : BufPopBeyond(n)

SpecPop == InitBuf /\ [][NextPop]_vars

(***************************************************************************)
(* Several connections.  Each 'connection' event runs newConn: soInit      *)
(* makes a new conn object and serverClient a new buf, and the readers are *)
(* closures over them.  The event loop runs one callback, and the promise  *)
(* continuations it settles, to completion before it takes the next event, *)
(* which may belong to another socket.                                     *)
(***************************************************************************)
\* what one connection owns
ConnState ==
    [script |-> script, pos |-> pos, sock |-> sock, flowing |-> flowing,
     conn |-> conn, buf |-> buf, pc |-> pc, ctx |-> ctx, msg |-> msg,
     remain |-> remain, resp |-> resp, handled |-> handled, written |-> written,
     failure |-> failure]

\* a connection accepted, its loop about to start, its client sending s
Accepted(s) ==
    [script |-> s, pos |-> 0,
     sock |-> [destroyed |-> FALSE, writing |-> <<>>, part |-> "none"],
     flowing |-> FALSE, conn |-> soInit, buf |-> [data |-> <<>>, length |-> 0],
     pc |-> "cut", ctx |-> "resp", msg |-> NoMsg, remain |-> 0, resp |-> NoResp,
     handled |-> <<>>, written |-> <<>>, failure |-> NoFailure]

\* the clients send different requests: a greeting, an echo of nothing
ScriptOf(id) == IF id % 2 = 1 THEN <<Get11>> ELSE <<Echo(StrHTTP11, 0)>>

DispatchSharedBuf(i) ==
    LET next == peers[i]
    IN  /\ Suspended
        /\ cur' = next.id
        /\ peers' = [peers EXCEPT ![i] = [id |-> cur, state |-> ConnState]]
        /\ script' = next.state.script
        /\ pos' = next.state.pos
        /\ sock' = next.state.sock
        /\ flowing' = next.state.flowing
        /\ conn' = next.state.conn
        /\ buf' = buf
        /\ pc' = next.state.pc
        /\ ctx' = next.state.ctx
        /\ msg' = next.state.msg
        /\ remain' = next.state.remain
        /\ resp' = next.state.resp
        /\ handled' = next.state.handled
        /\ written' = next.state.written
        /\ failure' = next.state.failure

\* the event loop turns to the events of another socket: the callbacks it
\* runs from now on hold that connection's conn, buf and readers
Dispatch(i) ==
    LET next == peers[i]
    IN  /\ Suspended
        /\ cur' = next.id
        /\ peers' = [peers EXCEPT ![i] = [id |-> cur, state |-> ConnState]]
        /\ script' = next.state.script
        /\ pos' = next.state.pos
        /\ sock' = next.state.sock
        /\ flowing' = next.state.flowing
        /\ conn' = next.state.conn
        /\ buf' = next.state.buf
        /\ pc' = next.state.pc
        /\ ctx' = next.state.ctx
        /\ msg' = next.state.msg
        /\ remain' = next.state.remain
        /\ resp' = next.state.resp
        /\ handled' = next.state.handled
        /\ written' = next.state.written
        /\ failure' = next.state.failure

InitMulti ==
    /\ cur = 1
    /\ peers = [i \in 1..(MaxConns - 1) |->
                  [id |-> i + 1, state |-> Accepted(ScriptOf(i + 1))]]
    /\ script = ScriptOf(1)
    /\ InitConn

NextMulti ==
    \/ Next
    \/ \E i \in 1..Len(peers) : Dispatch(i)

SpecMulti == InitMulti /\ [][NextMulti]_vars

(***************************************************************************)
(* What the claims speak of.                                               *)
(***************************************************************************)
\* the methods the specification recognizes
SpecMethods == {StrGET, StrPOST, StrPUT, StrDELETE, StrHEAD, StrOPTIONS, StrPATCH,
                StrTRACE}
\* the bytes of a request after its header terminator
BodyOf(r) == SubSeq(r, HeadLen(r) + 1, Len(r))
\* the request a header block stands for
Sent(r) == parseHTTPReq(SubSeq(r, 1, HeadLen(r))).req
\* the value of the length header of a written response head
DeclaredLength(head) ==
    parseDec(fieldGet(Tail(splitLines(head)), StrContentLength).value).val
EndsWith(s, suffix) ==
    Len(s) >= Len(suffix) /\ SubSeq(s, Len(s) - Len(suffix) + 1, Len(s)) = suffix
IsDecimal(v) == v # <<>> /\ \A i \in 1..Len(v) : v[i] \in Digit
BodyAllowed(m) == m.method \in SpecMethods \ {StrGET, StrHEAD}
HttpFailure(st) == pc = "failed" /\ failure.kind = "http" /\ failure.status = st
\* the stream delivered whole, and nothing of the transport failed
Delivered == pos = Len(Wire)
\* the first line of the client's stream and its tokens
FirstLine == SubSeq(Wire, 1, indexOf(Wire, CRLF))
Tokens == split(FirstLine)
ThreeTokens ==
    /\ indexOf(Wire, Terminator) >= 0
    /\ Len(Tokens) = 3
    /\ \A i \in 1..3 : Tokens[i] # <<>>

\* C1: a connection that receives one valid 1.1 request with a correct length
\* header, however it is split into chunks, has the handler invoked once for
\* it, whatever bytes follow, and stays open after the response: the loop
\* fails only if the transport does.
C1_OnceAndKeptOpen ==
    script[1] \in Echo11s =>
        /\ Len(handled) <= Len(script)
        /\ (Len(script) = 1 => Len(handled) <= 1)
        /\ (Len(script) = 1 /\ Delivered => failure.kind \in {"none", "io"})
        /\ (Len(script) = 1 /\ Delivered /\ failure.kind = "none" => ~sock.destroyed)

\* C2: after the response to a 1.0 request the loop is left and the
\* connection closed: the body is not drained for a next request, no further
\* request is handed to the handler, and the socket does not stay open.
C2_ClosesAfter10 ==
    /\ \A i \in 1..Len(handled) : handled[i].version = StrHTTP10 => i = Len(handled)
    /\ msg.version = StrHTTP10 => pc \notin {"drain", "wait_head"}
    /\ msg.version = StrHTTP10 /\ pc = "done" => sock.destroyed

\* C3: the body written in answer to POST /echo with Content-Length n is the
\* n bytes that follow the header terminator in the inbound stream, and the
\* response's length header is n, for every split of the stream.
C3_EchoBody ==
    script[1] \in Echo11s \cup Echo10s /\ written # <<>> /\ written[1].complete =>
        /\ written[1].body = BodyOf(script[1])
        /\ DeclaredLength(written[1].head) = Len(BodyOf(script[1]))

\* C4: the requests handed to the handler are the requests the client sent,
\* in arrival order: none twice, none skipped, none built from consumed
\* bytes; the responses follow in the same order.
C4_ArrivalOrder ==
    /\ Len(handled) <= Len(script)
    /\ \A i \in 1..Len(handled) : script[i] \in Good /\ handled[i] = Sent(script[i])
    /\ Len(written) <= Len(handled)
    /\ (pc = "wait_head" /\ Delivered /\ Last(script) \in Good
          => Len(handled) = Len(script))

\* C5: every response head written is the status line, CRLF, each header
\* line and CRLF, then a blank CRLF: the bytes before the body end with
\* CR LF CR LF.
C5_HeadEndsWithBlankLine ==
    \A i \in 1..Len(written) :
        /\ startsWith(written[i].head, StrStatusPrefix \o toDec(200) \o StrOK \o CRLF)
        /\ EndsWith(written[i].head, Terminator)

\* C6: the length header of a response equals the number of body bytes
\* written after the head once the response is complete, and is never
\* exceeded while it is written, for the in-memory and the connection-bounded
\* body reader.
C6_LengthHeaderIsBodyLength ==
    \A i \in 1..Len(written) :
        /\ Len(written[i].body) <= DeclaredLength(written[i].head)
        /\ written[i].complete =>
               Len(written[i].body) = DeclaredLength(written[i].head)

\* a complete greeting (in-memory reader) and a complete echo of a non-empty
\* body (connection-bounded reader) on one connection
C6_Witness ==
    /\ \E i \in 1..Len(written) :
          written[i].complete /\ written[i].body = StrHelloWorld
    /\ \E i \in 1..Len(written) :
          /\ written[i].complete
          /\ handled[i].uri = StrEcho
          /\ Len(written[i].body) = MaxBody

\* C7 as stated: without a terminator, a valid region of exactly 8192 bytes
\* is too large (413) and one of 8191 bytes needs more data.
C7_Exactly8192TooLarge ==
    pc # "cut" /\ indexOf(Wire, Terminator) < 0 =>
        /\ Len(Wire) = kMaxHeaderSize => HttpFailure(413)
        /\ Len(Wire) = kMaxHeaderSize - 1 => pc = "wait_head"

\* C7 amended: without a terminator, a valid region longer than 8192 bytes
\* (8193 or more) is too large (413); one of 8192 bytes or fewer needs more
\* data and is left as it is.
C7_Over8192TooLarge ==
    pc # "cut" /\ indexOf(Wire, Terminator) < 0 =>
        IF Len(Wire) > kMaxHeaderSize
        THEN HttpFailure(413)
        ELSE pc = "wait_head" /\ failure = NoFailure /\ Valid(buf) = Wire

C7_Witness ==
    /\ indexOf(Wire, Terminator) < 0
    /\ Len(Wire) = kMaxHeaderSize + 1
    /\ HttpFailure(413)

\* C8: a header block longer than 8192 bytes is never parsed into a request:
\* the extraction fails with 413, also when the terminator is in the buffer.
C8_NoLongHeaderBlockParsed ==
    pc # "cut" /\ HeadLen(Wire) > kMaxHeaderSize => HttpFailure(413)

\* C9: a request with a body-allowed method whose length header is not a
\* non-negative decimal integer fails in the body-reader factory with 400
\* "bad length"; no reader is built and the handler is not invoked.
C9_BadLengthIs400 ==
    /\ BodyAllowed(msg)
    /\ fieldGet(msg.headers, StrContentLength).found
    /\ ~IsDecimal(fieldGet(msg.headers, StrContentLength).value)
    => \/ pc = "reader"
       \/ HttpFailure(400) /\ failure.message = "bad Content-Length."

\* C10: a request line of three non-empty tokens fails with 405 exactly when
\* its method is not one of the eight recognized, whatever the target and
\* the version are.
C10_UnknownMethodIs405 ==
    pc # "cut" /\ ThreeTokens => (Tokens[1] \notin SpecMethods <=> HttpFailure(405))

\* an unknown method with a target and a version that are malformed too
C10_Witness ==
    /\ ThreeTokens
    /\ Tokens[1] = StrFOO /\ Tokens[2] = <<"x">> /\ Tokens[3] = Str11
    /\ HttpFailure(405)

\* C11: a request line that is not exactly three space-separated tokens (one,
\* two, four tokens, or an empty one among three) fails with 400 as a malformed
\* request line; the socket is destroyed, the handler is not invoked and the
\* buffer keeps every byte of the message.
C11_MalformedRequestLineIs400 ==
    pc # "cut" /\ indexOf(Wire, Terminator) >= 0 /\ ~ThreeTokens =>
        /\ HttpFailure(400)
        /\ failure.message \in {"Bad Request: Invalid request line format",
                                "Missing request line components"}
        /\ sock.destroyed
        /\ handled = <<>>
        /\ buf.length = Len(Wire) /\ Valid(buf) = Wire

\* the four-token request line, refused
C11_Witness ==
    /\ Len(Tokens) = 4
    /\ \A i \in 1..4 : Tokens[i] # <<>>
    /\ HttpFailure(400)
    /\ failure.message = "Bad Request: Invalid request line format"
    /\ sock.destroyed
    /\ Valid(buf) = Wire

\* the request the specification expects from the header block of a greeting
\* or an echo request: the version is the number after HTTP/
ExpectedRequest(r) ==
    IF r = Get11
    THEN [method |-> StrGET, uri |-> StrHello, version |-> Str11, headers |-> <<>>]
    ELSE [method |-> StrPOST, uri |-> StrEcho, version |-> Str11,
          headers |-> <<HeaderLine(StrContentLength, toDec(Len(BodyOf(r))))>>]

\* C12: a header block of a valid request line, k >= 0 valid header lines and
\* the terminator is accepted, and the parsed request carries the method, the
\* target, the version 1.1 for a line ending in HTTP/1.1, and exactly the k
\* header lines in order (none for GET /hello HTTP/1.1).
C12_ParsedRequestCarriesVersion ==
    script[1] \in {Get11} \cup Echo11s /\ Len(handled) = 0 /\ pc = "reader" =>
        msg = ExpectedRequest(script[1])

\* a read of a body reader that is exhausted: the in-memory reader after its
\* one chunk, the connection-bounded reader with nothing left to read
ExhaustedRead ==
    \/ pc = "body_read" /\ resp.body = "mem" /\ resp.done
    \/ pc = "body_read" /\ resp.body = "conn" /\ remain = 0
    \/ pc = "drain" /\ remain = 0

\* C13: a read of an exhausted body reader, in-memory or connection-bounded,
\* returns the empty result (the response loop ends, the drain loop ends)
\* without a transport read and leaves the receive buffer, the reader's state
\* and the connection as they are, so that the next read finds the reader
\* exhausted again.
C13_ExhaustedReadIsEmpty ==
    [][ExhaustedRead =>
          /\ pc' = IF pc = "drain" THEN "cut" ELSE "persist"
          /\ buf' = buf /\ remain' = remain /\ resp' = resp
          /\ conn' = conn /\ flowing' = flowing /\ sock' = sock /\ pos' = pos]_vars

\* a greeting and an echo both written to their end, and the echo's exhausted
\* reader read once more by the drain loop
C13_Witness ==
    /\ pc = "cut" /\ remain = 0
    /\ Len(written) = 2 /\ Len(handled) = 2
    /\ written[1].complete /\ written[1].body = StrHelloWorld
    /\ written[2].complete /\ handled[2].uri = StrEcho
    /\ Len(written[2].body) = MaxBody

\* C14: when a step of the loop fails (an HTTPError of the scanner, the parser
\* or the body-reader factory, a truncated body, a rejected read or write) the
\* loop is over and the socket destroyed; from then on no request is handed to
\* the handler and nothing more is written.
C14_FailureDestroysSocket ==
    /\ [](failure # NoFailure => pc = "failed")
    /\ [](pc = "failed" => failure # NoFailure /\ sock.destroyed)
    /\ [][pc = "failed" =>
            /\ pc' = "failed" /\ sock'.destroyed
            /\ handled' = handled /\ written' = written]_vars

\* a write that failed after a request was handled: no transport error was
\* latched, the loop is over and the socket destroyed
C14_Witness ==
    /\ pc = "failed" /\ failure = TransportError /\ ~conn.err
    /\ Len(handled) = 1
    /\ sock.destroyed

\* C15: when the client's end arrives while the loop waits for the next
\* request, the loop is left without an error and the connection closes: the
\* server's side of the socket does not stay open.  (The program closes a
\* socket only by socket.destroy(); it never calls socket.end().)
C15_CleanEndClosesConnection ==
    /\ pc = "done" => failure = NoFailure
    /\ pc = "done" /\ conn.ended => sock.destroyed

\* the length header and the chunked marker of the request in hand
LengthHeader == fieldGet(msg.headers, StrContentLength)
ChunkedMarker ==
    LET te == fieldGet(msg.headers, StrTransferEncoding)
    IN  te.found /\ te.value = StrChunked
IsZero(v) == v # <<>> /\ \A i \in 1..Len(v) : v[i] = "0"
IsInteger(v) == IsDecimal(v) \/ (v # <<>> /\ v[1] = "-" /\ IsDecimal(Tail(v)))
BodyForbidden(m) == m.method \in {StrGET, StrHEAD}

\* the loop failed with an HTTPError of the body-reader factory
FactoryFailure ==
    /\ pc = "failed" /\ failure.kind = "http"
    /\ failure.message \in {"bad Content-Length.", "HTTP body not allowed.",
                            "TODO: chunked encoding", "TODO: read until EOF"}

\* C17: for GET and HEAD the body-reader factory fails with 400 "body not
\* allowed" when the length header is a nonzero number or a chunked marker is
\* present, and the handler is not invoked; without them it gives a reader of
\* length 0: nothing is left to read and an echo of it has no body.
C17_BodyForbidden ==
    BodyForbidden(msg) /\ pc # "reader" =>
        /\ (LengthHeader.found /\ IsInteger(LengthHeader.value)
               /\ ~IsZero(LengthHeader.value)) \/ ChunkedMarker
             => /\ HttpFailure(400)
                /\ failure.message = "HTTP body not allowed."
                /\ handled = <<>>
        /\ (~LengthHeader.found \/ IsZero(LengthHeader.value)) /\ ~ChunkedMarker
             => /\ remain = 0
                /\ ~FactoryFailure
                /\ \A i \in 1..Len(written) : written[i].body = <<>>

\* C18: for a body-allowed method the factory takes the length header before
\* the chunked marker: a decimal length gives the connection-bounded reader
\* with that many bytes to read, also with a chunked marker; without a length
\* header it fails with 501, with or without the marker, and the handler is
\* not invoked.
C18_LengthBeforeChunked ==
    BodyAllowed(msg) /\ pc # "reader" =>
        /\ LengthHeader.found /\ IsDecimal(LengthHeader.value)
             => /\ pc = "handle" => remain = parseDec(LengthHeader.value).val
                /\ ~FactoryFailure
                /\ pc \in {"handle", "write_head"} \/ handled # <<>>
        /\ ~LengthHeader.found
             => /\ HttpFailure(501)
                /\ failure.message = IF ChunkedMarker THEN "TODO: chunked encoding"
                                     ELSE "TODO: read until EOF"
                /\ handled = <<>>

\* a POST with a length header and a chunked marker, its reader built
C18_Witness ==
    /\ BodyAllowed(msg) /\ ChunkedMarker
    /\ LengthHeader.found /\ LengthHeader.value = toDec(MaxBody)
    /\ pc = "handle" /\ remain = MaxBody

\* the connection-bounded reader gets a zero-length transport read: the read
\* it awaits is resumed by the client's end, or the end is already latched
\* when it calls soRead
TruncatedBodyRead ==
    \/ pc = "wait_body" /\ ~conn.ended /\ conn'.ended
    \/ /\ pc = "drain" \/ (pc = "body_read" /\ resp.body = "conn")
       /\ remain > 0 /\ buf.length = 0
       /\ conn.ended /\ ~conn.err

\* C19: with bytes of the body still to read, an empty buffer and a transport
\* read that yields zero bytes, the read fails with "Unexpected EOF from HTTP
\* body" instead of returning the end-of-body result; no further read is
\* made, the loop is over and the socket destroyed.
C19_TruncatedBodyFails ==
    /\ [][TruncatedBodyRead =>
            /\ remain > 0 /\ remain' = remain /\ pos' = pos
            /\ pc' = "failed" /\ failure' = BodyEOF /\ sock'.destroyed
            /\ written' = written]_vars
    /\ [](failure = BodyEOF => pc = "failed" /\ sock.destroyed /\ ~conn.reader)

\* the client ended in the middle of an echo's body, after the head of the
\* response was written
C19_Witness ==
    /\ pc = "failed" /\ failure = BodyEOF
    /\ conn.ended /\ remain > 0
    /\ written # <<>> /\ ~Last(written).complete
    /\ sock.destroyed

\* the step of the loop calls soRead
CallsSoRead ==
    \/ pc = "cut" /\ cutMessage(buf).kind = "null"
    \/ /\ pc = "drain" \/ (pc = "body_read" /\ resp.body = "conn")
       /\ remain > 0 /\ buf.length = 0
\* the step of the loop calls soWrite
CallsSoWrite ==
    \/ pc = "write_head" /\ resp.length >= 0
    \/ pc = "body_read" /\ resp.body = "mem" /\ ~resp.done
    \/ pc = "body_read" /\ resp.body = "conn" /\ remain > 0 /\ buf.length > 0

\* C20: the wrapper's error and end flags are latched.  With the error flag
\* set, also next to the end flag, a read and a write fail at once with the
\* error; with only the end flag set a read returns the empty result at once
\* and registers no pending read (the loop returns, the body reader throws);
\* a pending read is resumed with the empty result by the end and with the
\* error by the error.
C20_FlagsLatched ==
    [][/\ conn.err => conn'.err
       /\ conn.ended => conn'.ended
       /\ conn.err /\ (CallsSoRead \/ CallsSoWrite)
            => /\ pc' = "failed" /\ failure' = TransportError
               /\ ~conn'.reader /\ flowing' = flowing
               /\ sock'.writing = <<>> /\ written' = written
       /\ conn.ended /\ ~conn.err /\ CallsSoRead
            => /\ ~conn'.reader /\ flowing' = flowing
               /\ pc = "cut" => pc' = "done" /\ failure' = NoFailure
               /\ pc # "cut" => pc' = "failed" /\ failure' = BodyEOF
       /\ conn.reader /\ ~conn.ended /\ conn'.ended
            => /\ ~conn'.reader
               /\ pc = "wait_head" => pc' = "done" /\ failure' = NoFailure
               /\ pc = "wait_body" => pc' = "failed" /\ failure' = BodyEOF
       /\ conn.reader /\ ~conn.err /\ conn'.err
            => ~conn'.reader /\ pc' = "failed" /\ failure' = TransportError]_vars

\* a write refused on a wrapper with both flags set, after the request in
\* the buffer was handled
C20_Witness ==
    /\ conn.err /\ conn.ended
    /\ Len(handled) = 1 /\ written = <<>>
    /\ pc = "failed" /\ failure = TransportError

\* what a connection does when it is served alone with a client that sends
\* one request without a body: its buffer holds the bytes delivered to it,
\* its request is handed to the handler at most once and is the request its
\* client sent, and what it wrote is a part of the response to that request
ExpectedBody(s) == IF s[1] = Get11 THEN StrHelloWorld ELSE <<>>
AsAlone(c) ==
    /\ c.buf.data = SubSeq(Flatten(c.script), 1, c.pos)
    /\ Len(c.handled) <= 1 /\ Len(c.written) <= Len(c.handled)
    /\ \A i \in 1..Len(c.handled) : c.handled[i] = Sent(c.script[1])
    /\ \A i \in 1..Len(c.written) :
          /\ Len(c.written[i].body) <= Len(ExpectedBody(c.script))
          /\ c.written[i].body = SubSeq(ExpectedBody(c.script), 1, Len(c.written[i].body))
          /\ c.written[i].complete => c.written[i].body = ExpectedBody(c.script)

\* C16: with several connections served in any interleaving, a step taken
\* for one connection leaves what the others own (buffer, wrapper flags,
\* reader counters, everything else) as it was, a connection is resumed in
\* exactly the state it was left in, and each connection's handler
\* invocations and written bytes are those of the connection served alone.
C16_ConnectionsIsolated ==
    /\ [][cur' = cur => peers' = peers]_vars
    /\ [][cur' # cur =>
            \E i \in 1..Len(peers) :
                /\ peers[i].id = cur'
                /\ ConnState' = peers[i].state
                /\ peers' = [peers EXCEPT ![i] = [id |-> cur, state |-> ConnState]]]_vars
    /\ [](AsAlone(ConnState) /\ \A i \in 1..Len(peers) : AsAlone(peers[i].state))

\* two connections with different requests, both answered completely, the
\* event loop back at the first
C16_Witness ==
    /\ cur = 1 /\ Len(peers) >= 1
    /\ script # peers[1].state.script
    /\ written # <<>> /\ written[1].complete
    /\ peers[1].state.written # <<>> /\ peers[1].state.written[1].complete

\* C21: at most one read is outstanding on a connection.  The loop and its
\* body readers call soRead only when no read continuation is registered; a
\* continuation is registered exactly while the loop awaits soRead; a data
\* event is delivered only to a registered continuation, never to none; and
\* from the delivery of a chunk until the next soRead the socket is paused.
C21_OneReadOutstanding ==
    /\ [](pc # "crashed")
    /\ [](conn.reader <=> pc \in {"wait_head", "wait_body"})
    /\ [](flowing /\ ~conn.ended /\ ~conn.err => conn.reader)
    /\ [][CallsSoRead => ~conn.reader]_vars
    /\ [][pos' # pos => conn.reader /\ ~conn'.reader /\ ~flowing']_vars
    /\ [][~conn.reader /\ conn'.reader => CallsSoRead /\ flowing']_vars

\* a chunk was delivered and answered in part, the socket is paused and no
\* read is registered while the write is awaited
C21_Witness ==
    /\ pc = "wait_write" /\ pos > 0
    /\ ~conn.reader /\ ~flowing
    /\ ~conn.ended /\ ~conn.err
    /\ pos < Len(Wire)

\* C22: after any appends and consumes within the logical length, the valid
\* region of the receive buffer is the bytes appended so far without the
\* consumed prefix: an append adds its bytes at the end and their number to
\* the length, a consume of n removes the first n bytes and n from the length,
\* and no consumed byte comes back with a later append.
C22_ValidRegionIsAppendedLessConsumed ==
    /\ [](/\ 0 <= buf.length /\ buf.length <= pos
          /\ Valid(buf) = SubSeq(Wire, pos - buf.length + 1, pos))
    /\ [][pos' > pos =>
            /\ buf'.length = buf.length + (pos' - pos)
            /\ Valid(buf') = Valid(buf) \o SubSeq(Wire, pos + 1, pos')]_vars
    /\ [][pos' = pos =>
            \E n \in 0..buf.length :
                /\ buf'.length = buf.length - n
                /\ Valid(buf') = SubSeq(Valid(buf), n + 1, buf.length)]_vars

\* C23: a consume of more bytes than the logical length fails and leaves the
\* buffer as it is, so the logical length is never negative.
C23_ConsumeBeyondLengthFails ==
    /\ [](buf.length >= 0)
    /\ [][\A n \in PopSizes :
            n > buf.length /\ pos' = pos /\ buf' = bufPop(buf, n) => buf' = buf]_vars

\* where the request after the ones handled so far starts in the stream
NextStart == StartOf(script, Len(handled) + 1)

\* C24: on a connection that is kept open the next request is framed only
\* after the body reader of the previous one is exhausted, so at the
\* extraction that follows a handled request the valid region of the buffer
\* starts with the first byte after that request's declared body: it holds
\* the bytes delivered from there on and nothing else.
C24_DrainedBeforeNextRequest ==
    /\ pc = "cut" => remain = 0
    /\ pc = "cut" /\ handled # <<>> /\ Len(handled) <= Len(script) =>
          /\ buf.length = pos - NextStart
          /\ Valid(buf) = SubSeq(Wire, NextStart + 1, pos)

\* a header line as the specification wants it: a name of token characters,
\* the colon right after it, and a value without a control character other
\* than the horizontal tab
SpecHeaderLine(l) ==
    LET c == indexOf(l, <<":">>)
    IN  /\ c >= 1
        /\ \A i \in 1..c : l[i] \in TokenChar
        /\ \A i \in (c + 2)..Len(l) : l[i] \notin Control
\* the lines of the client's header block between the request line and the
\* trailing empty line
SentHeaderLines ==
    LET lines == splitLines(SubSeq(Wire, 1, HeadLen(Wire)))
    IN  SubSeq(lines, 2, Len(lines) - 1)

\* C25: a header block in which a line after the request line, other than
\* the trailing empty line, is not a name of token characters, a colon right
\* after it and a value free of control characters other than the tab (an
\* empty line before the end and a name with white space around it included)
\* fails with 400, and no request is produced.
C25_MalformedHeaderIs400 ==
    pc # "cut" /\ (\E i \in 1..Len(SentHeaderLines) : ~SpecHeaderLine(SentHeaderLines[i]))
        => HttpFailure(400) /\ msg = NoMsg

\* C26: an extraction that yields a request removes from the buffer the bytes
\* up to and including the first CR LF CR LF and nothing else: the bytes that
\* followed are the valid region afterwards, in order.  An extraction that
\* needs more data or fails (413, 400, 405) leaves the valid region and the
\* logical length as they were.
C26_ExtractionConsumesHeaderBlock ==
    [][pc = "cut" =>
          LET idx == indexOf(Valid(buf), Terminator)
          IN  IF pc' = "reader"
              THEN /\ idx >= 0
                   /\ buf'.length = buf.length - (idx + 4)
                   /\ Valid(buf') = SubSeq(Valid(buf), idx + 5, buf.length)
              ELSE /\ pc' \in {"cut", "wait_head", "failed"}
                   /\ buf'.length = buf.length
                   /\ Valid(buf') = Valid(buf)
                   /\ idx >= 0 /\ pc' = "failed" =>
                          failure'.kind = "http" /\ failure'.status \in {400, 405}
                   /\ idx < 0 /\ pc' = "failed" /\ ~conn.err =>
                          failure'.kind = "http" /\ failure'.status = 413]_vars

\* a request taken from a chunk that also held the start of the next one:
\* the bytes received after the header block are the valid region
C26_Witness ==
    /\ pc = "reader" /\ handled = <<>>
    /\ msg = Sent(script[1]) /\ BodyOf(script[1]) = <<>>
    /\ pos > HeadLen(script[1])
    /\ Valid(buf) = SubSeq(Wire, HeadLen(script[1]) + 1, pos)

\* the step runs the read of the connection-bounded reader: from its start,
\* or from its await of soRead when a chunk arrives
ReaderReads ==
    \/ pc = "drain"
    \/ pc = "body_read" /\ resp.body = "conn"
    \/ pc = "wait_body" /\ pos' > pos
\* the buffer the reader takes its chunk from: the receive buffer, after the
\* bufpush of the chunk the reader awaited
ReaderBuffer ==
    IF pc = "wait_body" THEN bufpush(buf, SubSeq(Wire, pos + 1, pos')) ELSE buf
\* the length the request in hand declares
Declared == parseDec(LengthHeader.value).val

\* C27: a read of the connection-bounded reader returns a chunk no longer
\* than the count that remained, lowers the count by the chunk's length and
\* removes the chunk, and nothing after it, from the front of the receive
\* buffer; the count is never negative, and what the reader has taken since
\* it was built is the declared length less the count: never more than
\* declared, so the bytes behind the body stay in the buffer.
C27_ReaderStaysWithinBody ==
    /\ [][ReaderReads =>
            LET k == remain - remain'
            IN  /\ 0 <= k /\ k <= remain
                /\ k > 0 => remain' < remain
                /\ pc' = "wait_write" =>
                      /\ k > 0 /\ Len(sock'.writing) = k
                      /\ sock'.writing = SubSeq(Valid(ReaderBuffer), 1, k)
                /\ pc' # "wait_body" =>
                      /\ buf'.length = ReaderBuffer.length - k
                      /\ Valid(buf') = SubSeq(Valid(ReaderBuffer), k + 1,
                                              ReaderBuffer.length)]_vars
    /\ [][~ReaderReads /\ pc # "reader" => remain' = remain]_vars
    /\ [](remain >= 0)
    /\ [](handled # <<>> /\ msg = Last(handled) /\ msg.uri = StrEcho
            /\ Len(written) = Len(handled) /\ pc \notin {"reader", "handle", "failed"} =>
              Len(Last(written).body) + (IF sock.part = "body" THEN Len(sock.writing) ELSE 0)
                = Declared - remain)

\* the reader of an echo gave its last chunk and is exhausted, and the bytes
\* that arrived behind the body are still in the buffer
C27_Witness ==
    /\ pc = "wait_write" /\ sock.part = "body"
    /\ msg.uri = StrEcho /\ Declared = MaxBody
    /\ remain = 0 /\ Len(sock.writing) > 0
    /\ handled = <<msg>>
    /\ buf.length > 0
    /\ pos > Len(script[1])
    /\ Valid(buf) = SubSeq(Wire, Len(script[1]) + 1, pos)

====
